---- MODULE Spec2Model ----
(***************************************************************************)
(* Land purchase system: the data access adapter (SQLite | Supabase), the *)
(* ledger update of buyers.total_spent / remaining_balance, the seeding   *)
(* of the plot table, the routes' status mapping, and the browser page    *)
(* (selection, purchase, recorded payments) that calls the server.        *)
(*                                                                         *)
(* The adapter modelled is the revision that carries the ledger update    *)
(* and the payment operations (src/unnamed/part_001); it is the one the   *)
(* transaction routes import listPayments/createPayment from.             *)
(* src/config/db-adapter.js is the same file without them.                *)
(***************************************************************************)
EXTENDS Integers, Sequences, FiniteSets, TLC

VARIABLES
    useSupabase,   \* db-adapter: const useSupabase, fixed per process environment
    initDatabase,  \* server: the initDatabase it holds, "none" without a process
    schema,        \* tables present in the SQLite file / Supabase project
    server,        \* "down" | "up": startServer listens only after initDatabase
    now,           \* logical clock behind new Date().toISOString()
    plots,         \* plots table: id -> [status, buyer_id, sold_date]
    buyers,        \* buyers table: sequence of rows, row i has id i
    transactions,  \* transactions table: sequence of rows, row i has id i
    payments,      \* payments table: sequence of rows
    calls,         \* adapter calls suspended at an await: slot -> frame
    last,          \* outcome of the most recently completed adapter call
    raced,         \* history: the buyers whose totals were written from a read
                   \* that was out of date
    client,        \* browser page: soldSet, selected, lastSelected, totalSpent,
                   \* currentBuyerId
    task           \* browser page: the async handler suspended at an await

vars == <<useSupabase, initDatabase, schema, server, now, plots, buyers,
          transactions, payments, calls, last, raced, client, task>>

-----------------------------------------------------------------------------
(* Bounds of the model *)

MaxBuyers == 2      \* buyers rows in the specification of the buyer writes
MaxTx == 2          \* transactions rows in the ledger specifications
LedgerBuyers == 1   \* buyers rows in the ledger specifications
MaxLedgerRows == 2  \* transactions and payments rows in the specification of all writes
MaxClock == 2       \* distinct timestamps
MaxPlotInput == 1   \* plot ids 1..MaxPlotInput + the pre-sold 3 are updated
PlotBuyers == 1     \* buyer ids 1..PlotBuyers are given to the plot updates
MaxPurchases == 1   \* transactions the page's purchases create

(* Program constants *)

TOTAL == 200        \* plots seeded
PRICE == 65800      \* seed price of every plot
BATCH == 50         \* Supabase seeding batch size

preSoldPlots == {3, 7, 8, 15, 19, 32, 47, 88, 101, 120, 155, 172, 199}

PlotStatuses == {"available", "selected", "sold"}

\* JS undefined / SQL NULL for a string-valued field
Undefined == "undefined"
\* SQL NULL / JS null, undefined or 0 for a buyer id, and NULL for sold_date
NoBuyer == 0
NoDate == 0

\* result.updatedCount of a result that has no such property
NoCount == -1

\* Two adapter calls may be in flight together.
Slots == {1, 2}

-----------------------------------------------------------------------------
(* Inputs *)

PlotIdInputs == (1..MaxPlotInput) \cup {3, TOTAL + 1}
StatusInputs == PlotStatuses \cup {"bogus", Undefined}
PlotBuyerInputs == 0..PlotBuyers
SeedFailPoints == 1..TOTAL
Batches == 0..((TOTAL \div BATCH) - 1)

-----------------------------------------------------------------------------
(* Results of adapter calls.  status is the .status attached to the thrown *)
(* error (0: none attached); http is what the route answers.               *)

Idle == [op |-> "idle"]

Ok(op, http, value) ==
    [op |-> op, kind |-> "ok", status |-> 0, http |-> http, value |-> value]

\* routes: res.status(error.status || 500)
RouteStatus(status) == IF status # 0 THEN status ELSE 500

Thrown(op, kind, status) ==
    [op |-> op, kind |-> kind, status |-> status, http |-> RouteStatus(status),
     value |-> 0]

NoResult == [op |-> "none", kind |-> "ok", status |-> 0, http |-> 0, value |-> 0]

-----------------------------------------------------------------------------
(* Store helpers *)

BuyerIds == 1..Len(buyers)
BuyerExists(b) == b \in BuyerIds

SeedRow(i) ==
    [status |-> IF i \in preSoldPlots THEN "sold" ELSE "available",
     price |-> PRICE, buyer_id |-> NoBuyer, sold_date |-> NoDate]

SeedTable(ids) == [i \in ids |-> SeedRow(i)]

\* SELECT * FROM plots WHERE id = ?, for a stored plot
getPlotById(id) == plots[id]

\* A slip in the UPDATE: sold_date is not among the columns set.
PlotUpdatedNoDate(row, status, buyerId) ==
    IF status = "sold" /\ buyerId # NoBuyer
    THEN [row EXCEPT !.status = status, !.buyer_id = buyerId]
    ELSE [row EXCEPT !.status = status]

\* UPDATE plots SET status = ? [, buyer_id = ?, sold_date = ?]
PlotUpdated(row, status, buyerId) ==
    IF status = "sold" /\ buyerId # NoBuyer
    THEN [row EXCEPT !.status = status, !.buyer_id = buyerId, !.sold_date = now]
    ELSE [row EXCEPT !.status = status]

-----------------------------------------------------------------------------
(* Process start *)

\* server: try { if (SUPABASE_URL && SUPABASE_KEY) require database-supabase
\* else require database } catch { require database }.  loads: whether
\* ./config/database-supabase can be loaded in this installation.
SelectInitDatabase(loads) ==
    IF useSupabase /\ loads THEN "supabase" ELSE "sqlite"

\* A slip in the adapter: the Supabase helpers are required only when used.
AdapterLoadsLazily(loads) == TRUE

\* db-adapter requires ./database-supabase-queries at its top, whatever the
\* backend; that module requires ./database-supabase.
AdapterLoads(loads) == loads

\* The synchronous top of the server module up to the call of startServer:
\* the choice of initDatabase, then the routes, which load the adapter.  An
\* exception there ends the process.
LoadServer(loads) ==
    /\ server = "down"
    /\ initDatabase = "none"
    /\ initDatabase' = IF AdapterLoads(loads) THEN SelectInitDatabase(loads)
                       ELSE "none"
    /\ UNCHANGED <<useSupabase, client, task, schema, server, now, plots,
                   buyers,
                   transactions, payments, calls, last, raced>>

-----------------------------------------------------------------------------
(* initDatabase *)

\* A slip in seedPlots: the count of stored plots is not looked at, and the
\* table is seeded again at every start.
SqliteInitDatabaseReseed(fail) ==
    /\ initDatabase = "sqlite"
    /\ server = "down"
    /\ IF fail = -1
       THEN UNCHANGED <<schema, plots, server>>
       ELSE /\ schema' = schema \cup {"plots", "buyers", "transactions"}
            /\ IF fail = 0
               THEN plots' = SeedTable(1..TOTAL) /\ server' = "up"
               ELSE plots' = SeedTable(1..(fail - 1)) /\ server' = "down"
    /\ initDatabase' = IF server' = "up" THEN initDatabase ELSE "none"
    /\ UNCHANGED <<useSupabase, client, task, now, buyers, transactions,
                   payments, calls,
                   last, raced>>

\* src/config/database.js: initDatabase -> createTables -> seedPlots.
\* fail = 0: every statement succeeds; fail = k: the INSERT of plot k is
\* rejected, which rejects initDatabase and leaves plots 1..k-1 stored;
\* fail = -1: the connection cannot be opened.
SqliteInitDatabase(fail) ==
    /\ initDatabase = "sqlite"
    /\ server = "down"
    /\ IF fail = -1
       THEN UNCHANGED <<schema, plots, server>>
       ELSE /\ schema' = schema \cup {"plots", "buyers", "transactions"}
            /\ IF DOMAIN plots = {}
               THEN IF fail = 0
                    THEN plots' = SeedTable(1..TOTAL) /\ server' = "up"
                    ELSE plots' = SeedTable(1..(fail - 1)) /\ server' = "down"
               ELSE plots' = plots /\ server' = "up"
    /\ initDatabase' = IF server' = "up" THEN initDatabase ELSE "none"
    /\ UNCHANGED <<useSupabase, client, task, now, buyers, transactions,
                   payments, calls,
                   last, raced>>

\* A slip in initDatabase: the connection error is logged and not rethrown,
\* so that startServer goes on to listen.
SupabaseInitDatabaseListens(connErr, checkErr, failed) ==
    /\ initDatabase = "supabase"
    /\ server = "down"
    /\ server' = "up"
    /\ IF ~connErr /\ ~checkErr /\ DOMAIN plots = {}
       THEN plots' = SeedTable({i \in 1..TOTAL :
                         ((i - 1) \div BATCH) \notin failed})
       ELSE plots' = plots
    /\ UNCHANGED <<useSupabase, client, task, initDatabase, schema, now, buyers,
                   transactions, payments, calls, last, raced>>

\* src/config/database-supabase.js: initDatabase -> seedPlots.
\* connErr: the test select fails with an error other than PGRST116 (throws);
\* checkErr: seedPlots' own select fails (logged, seedPlots returns);
\* failed: the batches whose insert returns an error (logged, loop goes on).
SupabaseInitDatabase(connErr, checkErr, failed) ==
    /\ initDatabase = "supabase"
    /\ server = "down"
    /\ IF connErr
       THEN UNCHANGED <<plots, server>>
       ELSE /\ server' = "up"
            /\ IF ~checkErr /\ DOMAIN plots = {}
               THEN plots' = SeedTable({i \in 1..TOTAL :
                                 ((i - 1) \div BATCH) \notin failed})
               ELSE plots' = plots
    /\ initDatabase' = IF server' = "up" THEN initDatabase ELSE "none"
    /\ UNCHANGED <<useSupabase, client, task, schema, now, buyers,
                   transactions, payments,
                   calls, last, raced>>

InitDatabase ==
    \/ \E fail \in {-1, 0} \cup SeedFailPoints : SqliteInitDatabase(fail)
    \/ \E connErr \in BOOLEAN, checkErr \in BOOLEAN, failed \in SUBSET Batches :
          SupabaseInitDatabase(connErr, checkErr, failed)

\* The process ends (process.exit, crash, redeploy); the store persists and
\* the calls in flight are gone.
ProcessExit ==
    /\ server = "up"
    /\ server' = "down"
    /\ calls' = [s \in Slots |-> Idle]
    /\ initDatabase' = "none"
    /\ UNCHANGED <<useSupabase, client, task, schema, now, plots, buyers,
                   transactions,
                   payments, last, raced>>

\* Time passes between two calls of new Date().
Tick ==
    /\ now < MaxClock
    /\ now' = now + 1
    /\ UNCHANGED <<useSupabase, client, task, initDatabase, schema, server,
                   plots, buyers, transactions,
                   payments, calls, last, raced>>

-----------------------------------------------------------------------------
(* Plots *)

\* SQLite branch of updatePlot: validation, one UPDATE, 'Plot not found'.
\* No error of this function carries a status.
SqliteUpdatePlot(id, status, buyerId) ==
    IF status # Undefined /\ status \notin PlotStatuses
    THEN /\ last' = Thrown("updatePlot", "InvalidStatus", 0)
         /\ plots' = plots
    ELSE IF id \notin DOMAIN plots
    THEN /\ last' = Thrown("updatePlot", "PlotNotFound", 0)
         /\ plots' = plots
    ELSE IF status = Undefined
    THEN \* status TEXT NOT NULL: the UPDATE is rejected by the store
         /\ last' = Thrown("updatePlot", "NotNullViolation", 0)
         /\ plots' = plots
    ELSE /\ last' = Ok("updatePlot", 200, 0)
         /\ plots' = [plots EXCEPT ![id] = PlotUpdated(@, status, buyerId)]

\* Supabase branch: updatePlotStatus. The store checks the status CHECK
\* constraint and the buyer_id foreign key; no matching row is no error.
\* An undefined status is dropped from the JSON body: an empty update.
SupabaseUpdatePlot(id, status, buyerId) ==
    IF id \notin DOMAIN plots \/ status = Undefined
    THEN /\ last' = Ok("updatePlot", 200, 0)
         /\ plots' = plots
    ELSE IF status \notin PlotStatuses
    THEN /\ last' = Thrown("updatePlot", "CheckViolation", 0)
         /\ plots' = plots
    ELSE IF status = "sold" /\ buyerId # NoBuyer /\ ~BuyerExists(buyerId)
    THEN /\ last' = Thrown("updatePlot", "ForeignKeyViolation", 0)
         /\ plots' = plots
    ELSE /\ last' = Ok("updatePlot", 200, 0)
         /\ plots' = [plots EXCEPT ![id] = PlotUpdated(@, status, buyerId)]

UpdatePlot(id, status, buyerId) ==
    /\ server = "up"
    /\ IF useSupabase
       THEN SupabaseUpdatePlot(id, status, buyerId)
       ELSE SqliteUpdatePlot(id, status, buyerId)
    /\ UNCHANGED <<useSupabase, client, task, initDatabase, schema, server,
                   now, buyers, transactions,
                   payments, calls, raced>>

\* SQLite branch of updatePlotsBulk: UPDATE ... WHERE id IN (...).
SqliteUpdatePlotsBulk(plotIds, status, buyerId) ==
    IF plotIds = {}
    THEN /\ last' = Thrown("updatePlotsBulk", "InvalidIds", 0)
         /\ plots' = plots
    ELSE IF status \notin PlotStatuses
    THEN /\ last' = Thrown("updatePlotsBulk", "InvalidStatus", 0)
         /\ plots' = plots
    ELSE /\ last' = Ok("updatePlotsBulk", 200,
                       Cardinality(plotIds \cap DOMAIN plots))
         /\ plots' = [i \in DOMAIN plots |->
                         IF i \in plotIds
                         THEN PlotUpdated(plots[i], status, buyerId)
                         ELSE plots[i]]

\* Supabase branch: updateMultiplePlots; returns the array of updated rows,
\* which has no updatedCount for the route to report; the store checks the
\* constraints of the rows it updates.
SupabaseUpdatePlotsBulk(plotIds, status, buyerId) ==
    IF plotIds \cap DOMAIN plots = {} \/ status = Undefined
    THEN /\ last' = Ok("updatePlotsBulk", 200, NoCount)
         /\ plots' = plots
    ELSE IF status \notin PlotStatuses
    THEN /\ last' = Thrown("updatePlotsBulk", "CheckViolation", 0)
         /\ plots' = plots
    ELSE IF status = "sold" /\ buyerId # NoBuyer /\ ~BuyerExists(buyerId)
    THEN /\ last' = Thrown("updatePlotsBulk", "ForeignKeyViolation", 0)
         /\ plots' = plots
    ELSE /\ last' = Ok("updatePlotsBulk", 200, NoCount)
         /\ plots' = [i \in DOMAIN plots |->
                         IF i \in plotIds
                         THEN PlotUpdated(plots[i], status, buyerId)
                         ELSE plots[i]]

UpdatePlotsBulk(plotIds, status, buyerId) ==
    /\ server = "up"
    /\ IF useSupabase
       THEN SupabaseUpdatePlotsBulk(plotIds, status, buyerId)
       ELSE SqliteUpdatePlotsBulk(plotIds, status, buyerId)
    /\ UNCHANGED <<useSupabase, client, task, initDatabase, schema, server,
                   now, buyers, transactions,
                   payments, calls, raced>>

PlotOps ==
    \/ \E id \in PlotIdInputs, status \in StatusInputs, b \in PlotBuyerInputs :
          UpdatePlot(id, status, b)
    \/ \E ids \in SUBSET PlotIdInputs, status \in StatusInputs,
          b \in PlotBuyerInputs :
          UpdatePlotsBulk(ids, status, b)

-----------------------------------------------------------------------------
(* Buyers *)

BuyerFields == {"name", "id_number", "phone", "email", "budget"}

\* A request body: the fields named in absent are undefined, whatever the
\* record holds for them.
Has(d, f) == f \notin d.absent

\* generateBuyerUid, for names that are already lower-case alphanumeric and
\* id numbers without blanks (the inputs of the model): name-id_number.
generateBuyerUid(name, idNumber) == name \o "-" \o idNumber

\* !name || !id_number || !phone || !email || budget === undefined
MissingBuyerField(d) == \E f \in BuyerFields : ~Has(d, f)

IdNumberTaken(idNumber) == \E i \in BuyerIds : buyers[i].id_number = idNumber

\* INSERT INTO buyers (...): total_spent and remaining_balance take the
\* column defaults, DEFAULT 0 both.
NewBuyerRow(d) ==
    [name |-> d.name, id_number |-> d.id_number, phone |-> d.phone,
     email |-> d.email, budget |-> d.budget, total_spent |-> 0,
     remaining_balance |-> 0, uid |-> generateBuyerUid(d.name, d.id_number)]

InFlight(op) == {s \in Slots : calls[s].op = op}
AllIdle == \A s \in Slots : calls[s] = Idle

\* A call starts in a free slot of a listening server.
MayStart(s) ==
    /\ server = "up"
    /\ calls[s] = Idle

\* createBuyer up to its first suspension.  SQLite: the validation and the
\* SELECT for an existing id_number; the INSERT follows in a later step.
\* Supabase: sbCreateBuyer, one INSERT that the store checks (NOT NULL,
\* id_number UNIQUE); its error carries no status.
CreateBuyerCheck(s, d) ==
    /\ MayStart(s)
    /\ IF useSupabase
       THEN /\ IF MissingBuyerField(d)
               THEN /\ last' = Thrown("createBuyer", "NotNullViolation", 0)
                    /\ buyers' = buyers
               ELSE IF IdNumberTaken(d.id_number)
               THEN /\ last' = Thrown("createBuyer", "UniqueViolation", 0)
                    /\ buyers' = buyers
               ELSE /\ buyers' = Append(buyers, NewBuyerRow(d))
                    /\ last' = Ok("createBuyer", 201, 0)
            /\ calls' = calls
       ELSE /\ IF MissingBuyerField(d)
               THEN /\ last' = Thrown("createBuyer", "MissingField", 0)
                    /\ calls' = calls
               ELSE IF IdNumberTaken(d.id_number)
               THEN /\ last' = Thrown("createBuyer", "Conflict", 409)
                    /\ calls' = calls
               ELSE /\ calls' = [calls EXCEPT ![s] =
                           [op |-> "createBuyer", pc |-> "insert", data |-> d]]
                    /\ last' = last
            /\ buyers' = buyers
    /\ UNCHANGED <<useSupabase, client, task, initDatabase, schema, server,
                   now, plots, transactions,
                   payments, raced>>

\* SQLite createBuyer after the SELECT: the INSERT and the row read back.
CreateBuyerInsert(s) ==
    /\ server = "up"
    /\ calls[s].op = "createBuyer"
    /\ buyers' = Append(buyers, NewBuyerRow(calls[s].data))
    /\ last' = Ok("createBuyer", 201, 0)
    /\ calls' = [calls EXCEPT ![s] = Idle]
    /\ UNCHANGED <<useSupabase, client, task, initDatabase, schema, server,
                   now, plots, transactions,
                   payments, raced>>

\* UPDATE buyers SET name = ?, id_number = ?, phone = ?, email = ?,
\* address = ?, occupation = ?, budget = ? WHERE id = ?
SqliteBuyerUpdated(row, d) ==
    [row EXCEPT !.name = d.name, !.id_number = d.id_number,
                !.phone = d.phone, !.email = d.email, !.budget = d.budget]

\* supabase.from('buyers').update(buyerData): the fields present in the body
SupabaseBuyerUpdated(row, d) ==
    [f \in DOMAIN row |-> IF f \in BuyerFields /\ Has(d, f) THEN d[f] ELSE row[f]]

\* updateBuyer: one statement.  SQLite: an undefined field is bound as NULL
\* and the NOT NULL columns reject it; no row matched is 404.  Supabase: the
\* store rejects a taken id_number, and .single() rejects an empty result.
UpdateBuyer(id, d) ==
    /\ server = "up"
    /\ IF useSupabase
       THEN IF ~BuyerExists(id)
            THEN /\ last' = Thrown("updateBuyer", "NoRows", 0)
                 /\ buyers' = buyers
            ELSE IF /\ Has(d, "id_number")
                    /\ \E i \in BuyerIds \ {id} : buyers[i].id_number = d.id_number
            THEN /\ last' = Thrown("updateBuyer", "UniqueViolation", 0)
                 /\ buyers' = buyers
            ELSE /\ last' = Ok("updateBuyer", 200, 0)
                 /\ buyers' = [buyers EXCEPT ![id] = SupabaseBuyerUpdated(@, d)]
       ELSE IF ~BuyerExists(id)
            THEN /\ last' = Thrown("updateBuyer", "NotFound", 404)
                 /\ buyers' = buyers
            ELSE IF MissingBuyerField(d)
            THEN /\ last' = Thrown("updateBuyer", "NotNullViolation", 0)
                 /\ buyers' = buyers
            ELSE /\ last' = Ok("updateBuyer", 200, 0)
                 /\ buyers' = [buyers EXCEPT ![id] = SqliteBuyerUpdated(@, d)]
    /\ UNCHANGED <<useSupabase, client, task, initDatabase, schema, server,
                   now, plots, transactions,
                   payments, calls, raced>>

-----------------------------------------------------------------------------
(* Ledger update rule *)

\* A slip in that line: the amount replaces the total instead of adding to it.
TransactionTotalOverwrite(totalSpent, amount) == amount

\* const newTotal = Number(buyer.total_spent || 0) + Number(total_amount || 0)
TransactionTotal(totalSpent, amount) == totalSpent + amount

\* const newTotal = Number(buyer.total_spent || 0) - Number(amount || 0)
PaymentTotal(totalSpent, amount) == totalSpent - amount

\* const remaining = Number(buyer.budget) - newTotal
Remaining(budget, newTotal) == budget - newTotal

\* Math.max(newTotal, 0)
Floored(newTotal) == IF newTotal > 0 THEN newTotal ELSE 0

\* A slip in the SELECT: total_spent is not among the columns read, and
\* buyer.total_spent || 0 is 0.
LedgerReadNoTotal(b) ==
    [budget |-> buyers[b].budget, total |-> 0, stale |-> FALSE]

\* SELECT budget, total_spent FROM buyers WHERE id = ?
\* stale (history): the row was written after this read.
LedgerRead(b) ==
    [budget |-> buyers[b].budget, total |-> buyers[b].total_spent,
     stale |-> FALSE]

\* The frames of the other calls after call s has written buyer row b:
\* what they have read of that row is out of date.
Outdated(s, b) ==
    [t \in Slots |->
        IF t = s THEN Idle
        ELSE IF calls[t].op \in {"createTransaction", "createPayment"}
                /\ calls[t].pc = "write" /\ calls[t].buyer_id = b
        THEN [calls[t] EXCEPT !.read.stale = TRUE]
        ELSE calls[t]]

\* A slip in the UPDATE: the remaining balance is bound to budget as well.
LedgerWriteBudget(s, total, remaining) ==
    /\ buyers' = [buyers EXCEPT ![calls[s].buyer_id].total_spent = total,
                                ![calls[s].buyer_id].remaining_balance = remaining,
                                ![calls[s].buyer_id].budget = remaining]
    /\ raced' = IF calls[s].read.stale THEN raced \cup {calls[s].buyer_id}
                ELSE raced
    /\ calls' = Outdated(s, calls[s].buyer_id)

\* UPDATE buyers SET total_spent = ?, remaining_balance = ? WHERE id = ?
\* by call s, which then returns.
LedgerWrite(s, total, remaining) ==
    /\ buyers' = [buyers EXCEPT ![calls[s].buyer_id].total_spent = total,
                                ![calls[s].buyer_id].remaining_balance = remaining]
    /\ raced' = IF calls[s].read.stale THEN raced \cup {calls[s].buyer_id}
                ELSE raced
    /\ calls' = Outdated(s, calls[s].buyer_id)

-----------------------------------------------------------------------------
(* Transactions *)

Digits == <<"0", "1", "2", "3", "4", "5", "6", "7", "8", "9">>

\* Text is a sequence of one-character strings.
\* String(n) of a non-negative integer
RECURSIVE DecimalString(_)
DecimalString(n) ==
    IF n < 10 THEN <<Digits[n + 1]>>
    ELSE DecimalString(n \div 10) \o <<Digits[(n % 10) + 1]>>

\* plot_ids.join(',')
RECURSIVE Join(_)
Join(ids) ==
    IF ids = <<>> THEN <<>>
    ELSE IF Len(ids) = 1 THEN DecimalString(ids[1])
    ELSE DecimalString(ids[1]) \o <<",">> \o Join(Tail(ids))

\* JSON.stringify(plot_ids): the text the Supabase store keeps when the
\* request gives an array for the text column
JsonText(ids) == <<"[">> \o Join(ids) \o <<"]">>

\* tx.plot_ids.split(',')
RECURSIVE Split(_)
Split(text) ==
    IF \A i \in DOMAIN text : text[i] # ","
    THEN <<text>>
    ELSE LET c == CHOOSE i \in DOMAIN text :
                      /\ text[i] = ","
                      /\ \A j \in 1..(i - 1) : text[j] # ","
         IN  <<SubSeq(text, 1, c - 1)>> \o Split(SubSeq(text, c + 1, Len(text)))

\* A slip in that check: plot_ids is not looked at.
MissingTransactionFieldNoPlotIds(d) ==
    \/ ~Has(d, "buyer_id") \/ d.buyer_id = 0
    \/ ~Has(d, "total_amount") \/ d.total_amount = 0

\* !buyer_id || !plot_ids || !total_amount
MissingTransactionField(d) ==
    \/ ~Has(d, "buyer_id") \/ d.buyer_id = 0
    \/ ~Has(d, "plot_ids")
    \/ ~Has(d, "total_amount") \/ d.total_amount = 0

\* Array.isArray(plot_ids): a body whose plot_ids is a string says so in
\* its "text" mark; the other bodies give an array.
IsArray(d) == "text" \notin DOMAIN d

\* Array.isArray(plot_ids) ? plot_ids.join(',') : plot_ids
PlotIdsString(d) == IF IsArray(d) THEN Join(d.plot_ids) ELSE d.plot_ids

\* The text column of the Supabase store: a string as it is, an array as
\* its JSON text.
PlotIdsColumn(d) == IF IsArray(d) THEN JsonText(d.plot_ids) ELSE d.plot_ids

NewTransactionRow(d, plotIdsString) ==
    [buyer_id |-> d.buyer_id, plot_ids |-> plotIdsString,
     total_amount |-> d.total_amount, payment_status |-> "pending"]

\* createTransaction up to the suspension after its INSERT.  SQLite: the
\* validation, the join of plot_ids and the INSERT (foreign keys are not
\* enforced by the connection).  Supabase: sbCreateTransaction inserts the
\* body as it is; the store checks NOT NULL and the buyer_id foreign key and
\* keeps an array given for the text column as its JSON text.
CreateTransactionInsert(s, d) ==
    /\ MayStart(s)
    /\ IF useSupabase
       THEN IF \E f \in {"buyer_id", "plot_ids", "total_amount"} : ~Has(d, f)
            THEN /\ last' = Thrown("createTransaction", "NotNullViolation", 0)
                 /\ UNCHANGED <<transactions, calls>>
            ELSE IF ~BuyerExists(d.buyer_id)
            THEN /\ last' = Thrown("createTransaction", "ForeignKeyViolation", 0)
                 /\ UNCHANGED <<transactions, calls>>
            ELSE /\ transactions' = Append(transactions,
                        NewTransactionRow(d, PlotIdsColumn(d)))
                 /\ calls' = [calls EXCEPT ![s] =
                        [op |-> "createTransaction", pc |-> "read",
                         buyer_id |-> d.buyer_id, amount |-> d.total_amount,
                         id |-> Len(transactions) + 1]]
                 /\ last' = last
       ELSE IF MissingTransactionField(d)
            THEN /\ last' = Thrown("createTransaction", "MissingField", 0)
                 /\ UNCHANGED <<transactions, calls>>
            ELSE /\ transactions' = Append(transactions,
                        NewTransactionRow(d, PlotIdsString(d)))
                 /\ calls' = [calls EXCEPT ![s] =
                        [op |-> "createTransaction", pc |-> "read",
                         buyer_id |-> d.buyer_id, amount |-> d.total_amount,
                         id |-> Len(transactions) + 1]]
                 /\ last' = last
    /\ UNCHANGED <<useSupabase, client, task, initDatabase, schema, server,
                   now, plots, buyers, payments,
                   raced>>

\* The SELECT of the buyer's budget and total_spent.  Without a buyer row
\* the update is skipped and the call returns the inserted transaction.
LedgerReadStep(s, op) ==
    /\ server = "up"
    /\ calls[s].op = op
    /\ calls[s].pc = "read"
    /\ IF BuyerExists(calls[s].buyer_id)
       THEN /\ calls' = [calls EXCEPT ![s] =
                   [op |-> op, pc |-> "write", buyer_id |-> calls[s].buyer_id,
                    amount |-> calls[s].amount, id |-> calls[s].id,
                    read |-> LedgerRead(calls[s].buyer_id)]]
            /\ last' = last
       ELSE /\ calls' = [calls EXCEPT ![s] = Idle]
            /\ last' = Ok(op, 201, 0)
    /\ UNCHANGED <<useSupabase, client, task, initDatabase, schema, server,
                   now, plots, buyers,
                   transactions, payments, raced>>

CreateTransactionRead(s) == LedgerReadStep(s, "createTransaction")

\* The UPDATE of the buyer's totals from what was read, and the return of
\* the inserted transaction.
CreateTransactionWrite(s) ==
    /\ server = "up"
    /\ calls[s].op = "createTransaction"
    /\ calls[s].pc = "write"
    /\ LET f == calls[s]
           newTotal == TransactionTotal(f.read.total, f.amount)
       IN  LedgerWrite(s, newTotal, Remaining(f.read.budget, newTotal))
    /\ last' = Ok("createTransaction", 201, 0)
    /\ UNCHANGED <<useSupabase, client, task, initDatabase, schema, server,
                   now, plots, transactions,
                   payments>>

\* The store fails the ledger SELECT or UPDATE of a createTransaction call
\* (pc names which).  SQLite: getQuery/runQuery reject and the adapter
\* function rejects with that error.  Supabase: the client resolves to
\* {data: null, error}; sbCreateTransaction reads only data of the SELECT
\* and nothing of the UPDATE, and returns the inserted row.
LedgerStepFails(s, pc) ==
    /\ server = "up"
    /\ calls[s].op = "createTransaction"
    /\ calls[s].pc = pc
    /\ calls' = [calls EXCEPT ![s] = Idle]
    /\ last' = IF useSupabase THEN Ok("createTransaction", 201, 0)
               ELSE Thrown("createTransaction", "StoreError", 0)
    /\ UNCHANGED <<useSupabase, client, task, initDatabase, schema, server,
                   now, plots, buyers,
                   transactions, payments, raced>>

CreateTransactionReadFails(s) == LedgerStepFails(s, "read")

CreateTransactionWriteFails(s) == LedgerStepFails(s, "write")

\* A slip in the list: a value outside the schema's set is let through.
PaymentStatusesWithBogus == {"pending", "completed", "failed", "bogus"}

\* ['pending', 'completed', 'failed'], also the CHECK of the
\* payment_status column in both stores
PaymentStatuses == {"pending", "completed", "failed"}

PaymentStatusInputs == PaymentStatuses \cup {"bogus"}

TransactionExists(id) == id \in 1..Len(transactions)

\* updateTransactionStatus(id, payment_status).  SQLite: the adapter checks
\* the status against the list, updates, and throws 'Transaction not found'
\* with status 404 when no row changed.  Supabase: sbUpdateTransactionStatus
\* sends the update unchecked; the column's CHECK rejects the new row
\* version, and .single() fails when no row comes back.
UpdateTransactionStatus(id, status) ==
    /\ server = "up"
    /\ IF useSupabase
       THEN IF ~TransactionExists(id)
            THEN /\ last' = Thrown("updateTransactionStatus", "NoRows", 0)
                 /\ transactions' = transactions
            ELSE IF status \notin PaymentStatuses
            THEN /\ last' = Thrown("updateTransactionStatus", "CheckViolation", 0)
                 /\ transactions' = transactions
            ELSE /\ last' = Ok("updateTransactionStatus", 200, 0)
                 /\ transactions' = [transactions EXCEPT
                                        ![id].payment_status = status]
       ELSE IF status \notin PaymentStatuses
            THEN /\ last' = Thrown("updateTransactionStatus", "InvalidStatus", 0)
                 /\ transactions' = transactions
            ELSE IF ~TransactionExists(id)
            THEN /\ last' = Thrown("updateTransactionStatus", "NotFound", 404)
                 /\ transactions' = transactions
            ELSE /\ last' = Ok("updateTransactionStatus", 200, 0)
                 /\ transactions' = [transactions EXCEPT
                                        ![id].payment_status = status]
    /\ UNCHANGED <<useSupabase, client, task, initDatabase, schema, server,
                   now, plots, buyers, payments,
                   calls, raced>>

-----------------------------------------------------------------------------
(* Payments *)

\* The payments route answers every error with 400.
PaymentThrown(kind) ==
    [op |-> "createPayment", kind |-> kind, status |-> 0, http |-> 400,
     value |-> 0]

\* !buyer_id || !amount
MissingPaymentField(d) ==
    \/ ~Has(d, "buyer_id") \/ d.buyer_id = 0
    \/ ~Has(d, "amount") \/ d.amount = 0

\* createPayment up to the suspension after its INSERT.  Supabase: the
\* adapter calls sbCreatePayment, which it never imports (the queries module
\* does not export createPayment): a ReferenceError.  SQLite: the INSERT
\* needs the payments table.
CreatePaymentInsert(s, d) ==
    /\ MayStart(s)
    /\ IF useSupabase
       THEN /\ last' = PaymentThrown("ReferenceError")
            /\ UNCHANGED <<payments, calls>>
       ELSE IF MissingPaymentField(d)
            THEN /\ last' = PaymentThrown("MissingField")
                 /\ UNCHANGED <<payments, calls>>
            ELSE IF "payments" \notin schema
            THEN /\ last' = PaymentThrown("StoreError")
                 /\ UNCHANGED <<payments, calls>>
            ELSE /\ payments' = Append(payments,
                        [buyer_id |-> d.buyer_id, amount |-> d.amount])
                 /\ calls' = [calls EXCEPT ![s] =
                        [op |-> "createPayment", pc |-> "read",
                         buyer_id |-> d.buyer_id, amount |-> d.amount,
                         id |-> Len(payments) + 1]]
                 /\ last' = last
    /\ UNCHANGED <<useSupabase, client, task, initDatabase, schema, server,
                   now, plots, buyers,
                   transactions, raced>>

CreatePaymentRead(s) == LedgerReadStep(s, "createPayment")

\* [Math.max(newTotal, 0), remaining, buyer_id] with
\* remaining = Number(buyer.budget) - newTotal
CreatePaymentWrite(s) ==
    /\ server = "up"
    /\ calls[s].op = "createPayment"
    /\ calls[s].pc = "write"
    /\ LET f == calls[s]
           newTotal == PaymentTotal(f.read.total, f.amount)
       IN  LedgerWrite(s, Floored(newTotal), Remaining(f.read.budget, newTotal))
    /\ last' = Ok("createPayment", 201, 0)
    /\ UNCHANGED <<useSupabase, client, task, initDatabase, schema, server,
                   now, plots, transactions,
                   payments>>

-----------------------------------------------------------------------------
(* Request bodies *)

IdNumbers == {"A1", "B2"}
Budgets == {0, 100000}
TxAmounts == {65800, 131600}
PayAmounts == {30000}
PlotIdLists == {<<5, 12, 5>>}

\* absents: the sets of fields a body may leave out
BuyerInputs(absents) ==
    [name : {"ann"}, id_number : IdNumbers, phone : {"0700"},
     email : {"ann-at-x"}, budget : Budgets, absent : absents]

TxInputs(refs, amounts, absents) ==
    [buyer_id : refs, plot_ids : PlotIdLists, total_amount : amounts,
     absent : absents]

PayInputs(refs, amounts) ==
    [buyer_id : refs, amount : amounts, absent : {{}}]

\* The body the client sends for a payment: a transaction reference and an
\* amount, no buyer_id.
ClientPayInputs ==
    [buyer_id : {0}, transaction_id : 1..MaxTx, amount : PayAmounts,
     absent : {{"buyer_id"}}]

\* Bodies with a field left out or falsy beside the complete ones
AnyBuyerInputs == BuyerInputs({{}, {"name"}, {"budget"}})
AnyTxInputs(refs) == TxInputs(refs \cup {0}, TxAmounts \cup {0}, {{}, {"plot_ids"}})

\* Calls run one at a time: a call starts when none is in flight.
Serial(s) == AllIdle /\ s = 1

-----------------------------------------------------------------------------
(* Browser page *)

\* let soldSet = new Set(); let selected = new Set(); let lastSelected = null;
\* let totalSpent = 0; let currentBuyerId = null;
InitClient ==
    [soldSet |-> {}, selected |-> {}, lastSelected |-> 0, totalSpent |-> 0,
     currentBuyerId |-> NoBuyer]

\* The variables the page does not hold, beside the response slot.
StoreVars ==
    <<useSupabase, initDatabase, schema, server, now, plots, buyers,
      transactions, payments, calls, raced>>

\* The plots the user clicks; plot 3 is sold from the seed on.
ClientPlotIds == {3, 4}

\* buyerBudgetInput.value of the filled-in form
ClientBudget == 200000

\* depositPercentInput.value
DepositPercent == 20

\* The form: name, phone and email are filled in; the ID number and the
\* payment mode vary.
ClientForms == [id_number : {"A1"}, isInstallments : BOOLEAN]

\* [...selected].sort((a, b) => a - b)
RECURSIVE SortedPlots(_)
SortedPlots(S) ==
    IF S = {} THEN <<>>
    ELSE LET m == CHOOSE x \in S : \A y \in S : x <= y
         IN  <<m>> \o SortedPlots(S \ {m})

PlotSet(seq) == {seq[i] : i \in DOMAIN seq}

\* computeDepositAmount with the percent deposit type:
\* Math.round((pct / 100) * totalCost)
computeDepositAmount(totalCost, isInstallments) ==
    IF ~isInstallments THEN totalCost
    ELSE (DepositPercent * totalCost + 50) \div 100

\* A request that is waiting for its response
Waiting(op, pc) == task.op = op /\ task.pc = pc
Unanswered == last = NoResult
Resolved == last # NoResult /\ last.kind = "ok"

\* handlePlotClick
handlePlotClick(idx, shiftKey) ==
    /\ idx \notin client.soldSet
    /\ client' = [client EXCEPT
          !.selected =
              IF shiftKey /\ client.lastSelected # 0
              THEN LET start == IF client.lastSelected < idx
                                THEN client.lastSelected ELSE idx
                       end == IF client.lastSelected < idx
                              THEN idx ELSE client.lastSelected
                   IN  @ \cup {i \in start..end : i \notin client.soldSet}
              ELSE IF idx \in @ THEN @ \ {idx} ELSE @ \cup {idx},
          !.lastSelected = idx]
    /\ UNCHANGED <<StoreVars, last, task>>

\* clearSelection click
clearSelection ==
    /\ client.selected # {}
    /\ client' = [client EXCEPT !.selected = {}, !.lastSelected = 0]
    /\ UNCHANGED <<StoreVars, last, task>>

\* loadPlots after API.getPlots() has answered: soldSet is replaced by the
\* sold plots of the response; when the request failed, the catch logs.
LoadedSoldSet ==
    IF Unanswered
    THEN {i \in DOMAIN plots : plots[i].status = "sold"}
    ELSE client.soldSet

\* resetDemo click, up to the await in loadPlots
resetDemo ==
    /\ task = Idle
    /\ client' = [client EXCEPT !.soldSet = {}, !.selected = {},
                                !.lastSelected = 0, !.totalSpent = 0]
    /\ task' = [op |-> "resetDemo", pc |-> "getPlots"]
    /\ last' = NoResult
    /\ UNCHANGED StoreVars

\* resetDemo: loadPlots resumes with the plots, and awaits the stats when
\* the plots came
ResetGetPlots ==
    /\ Waiting("resetDemo", "getPlots")
    /\ client' = [client EXCEPT !.soldSet = LoadedSoldSet]
    /\ task' = IF Unanswered THEN [task EXCEPT !.pc = "getPlotStats"] ELSE Idle
    /\ last' = NoResult
    /\ UNCHANGED StoreVars

\* resetDemo: the stats arrive or fail; render()
ResetGetPlotStats ==
    /\ Waiting("resetDemo", "getPlotStats")
    /\ task' = Idle
    /\ last' = NoResult
    /\ UNCHANGED <<StoreVars, client>>

\* fetch rejects, or the response is not ok: request() throws
RequestFails ==
    /\ task # Idle
    /\ Unanswered
    /\ AllIdle
    /\ last' = Thrown(task.pc, "NetworkError", 0)
    /\ UNCHANGED <<StoreVars, client, task>>

-----------------------------------------------------------------------------
(* Browser page: buySelected *)

\* const paymentAmount = isInstallments ? depositNow : totalCost
PaymentAmount(f) == IF f.form.isInstallments THEN f.depositNow ELSE f.totalCost

\* paymentAmount >= totalCost ? 'paid' : 'partial'
InitialStatus(f) == IF PaymentAmount(f) >= f.totalCost THEN "paid" ELSE "partial"

\* buySelected from the click to the await in getOrCreateBuyer; the confirm
\* dialog is accepted.  started is history: what the store held for the
\* purchase when it began.
buySelected(form) ==
    /\ task = Idle
    /\ client.selected # {}
    /\ LET sorted == SortedPlots(client.selected)
           totalCost == Len(sorted) * PRICE
           remaining == ClientBudget - client.totalSpent
           depositNow == computeDepositAmount(totalCost, form.isInstallments)
       IN  /\ form.isInstallments \/ totalCost <= remaining
           /\ client' = [client EXCEPT !.totalSpent = @ + depositNow]
           /\ task' = [op |-> "buySelected", pc |-> "getBuyers",
                       plots |-> sorted, totalCost |-> totalCost,
                       depositNow |-> depositNow, form |-> form,
                       createdTx |-> 0,
                       started |-> [buyers |-> Len(buyers),
                                    transactions |-> Len(transactions),
                                    plots |-> [i \in client.selected |-> plots[i]]]]
    /\ last' = NoResult
    /\ UNCHANGED StoreVars

\* What follows saveTransaction: the initial payment when a transaction
\* came back, loadPlots otherwise.
AfterSave(c, f) ==
    [client |-> c,
     task |-> [f EXCEPT !.pc = IF f.createdTx # 0 THEN "createPayment"
                                ELSE "getPlots"]]

\* plots.forEach(n => soldSet.add(n)), then saveTransaction, which returns
\* null without a currentBuyerId
AfterMark(c, f) ==
    LET marked == [c EXCEPT !.soldSet = @ \cup PlotSet(f.plots)]
    IN  IF c.currentBuyerId = NoBuyer
        THEN AfterSave(marked, f)
        ELSE [client |-> marked, task |-> [f EXCEPT !.pc = "createTransaction"]]

\* What follows getOrCreateBuyer: the bulk update when there is a
\* currentBuyerId
AfterBuyer(c, f) ==
    IF c.currentBuyerId # NoBuyer
    THEN [client |-> c, task |-> [f EXCEPT !.pc = "updatePlotsBulk"]]
    ELSE AfterMark(c, f)

\* buyers.find(b => b.id_number === idNumber)
FoundBuyer(idNumber) ==
    LET found == {i \in BuyerIds : buyers[i].id_number = idNumber}
    IN  IF found = {} THEN NoBuyer
        ELSE CHOOSE i \in found : \A j \in found : i <= j

\* getOrCreateBuyer resumes with the buyers, or in its catch
BuyGetBuyers ==
    /\ Waiting("buySelected", "getBuyers")
    /\ LET b == FoundBuyer(task.form.id_number)
           next == IF ~Unanswered THEN AfterBuyer(client, task)
                   ELSE IF b = NoBuyer
                   THEN [client |-> client,
                         task |-> [task EXCEPT !.pc = "createBuyer"]]
                   ELSE AfterBuyer([client EXCEPT !.currentBuyerId = b], task)
       IN  client' = next.client /\ task' = next.task
    /\ last' = NoResult
    /\ UNCHANGED StoreVars

\* getOrCreateBuyer resumes with the created buyer, or in its catch
BuyCreateBuyer ==
    /\ Waiting("buySelected", "createBuyer")
    /\ ~Unanswered
    /\ LET c == IF Resolved
                THEN [client EXCEPT !.currentBuyerId = Len(buyers)]
                ELSE client
           next == AfterBuyer(c, task)
       IN  client' = next.client /\ task' = next.task
    /\ last' = NoResult
    /\ UNCHANGED StoreVars

\* buySelected resumes after the bulk update, or from its catch
BuyUpdatePlotsBulk ==
    /\ Waiting("buySelected", "updatePlotsBulk")
    /\ ~Unanswered
    /\ LET next == AfterMark(client, task)
       IN  client' = next.client /\ task' = next.task
    /\ last' = NoResult
    /\ UNCHANGED StoreVars

\* saveTransaction resumes with the transaction, or returns null from its
\* catch
BuyCreateTransaction ==
    /\ Waiting("buySelected", "createTransaction")
    /\ ~Unanswered
    /\ LET f == [task EXCEPT !.createdTx =
                    IF Resolved THEN Len(transactions) ELSE 0]
           next == AfterSave(client, f)
       IN  client' = next.client /\ task' = next.task
    /\ last' = NoResult
    /\ UNCHANGED StoreVars

\* buySelected resumes after the initial payment: the status update, or the
\* catch and loadPlots
BuyCreatePayment ==
    /\ Waiting("buySelected", "createPayment")
    /\ ~Unanswered
    /\ task' = [task EXCEPT !.pc = IF Resolved THEN "updateTransactionStatus"
                                   ELSE "getPlots"]
    /\ last' = NoResult
    /\ UNCHANGED <<StoreVars, client>>

\* buySelected resumes after the status update, or from the catch
BuyUpdateTransactionStatus ==
    /\ Waiting("buySelected", "updateTransactionStatus")
    /\ ~Unanswered
    /\ task' = [task EXCEPT !.pc = "getPlots"]
    /\ last' = NoResult
    /\ UNCHANGED <<StoreVars, client>>

\* The end of buySelected: selected.clear(); lastSelected = null
Finished(c) == [c EXCEPT !.selected = {}, !.lastSelected = 0]

\* buySelected: loadPlots resumes with the plots, or in its catch
BuyGetPlots ==
    /\ Waiting("buySelected", "getPlots")
    /\ IF Unanswered
       THEN /\ client' = [client EXCEPT !.soldSet = LoadedSoldSet]
            /\ task' = [task EXCEPT !.pc = "getPlotStats"]
       ELSE /\ client' = Finished(client)
            /\ task' = Idle
    /\ last' = NoResult
    /\ UNCHANGED StoreVars

\* buySelected: the stats arrive or fail, and the purchase ends
BuyGetPlotStats ==
    /\ Waiting("buySelected", "getPlotStats")
    /\ client' = Finished(client)
    /\ task' = Idle
    /\ last' = NoResult
    /\ UNCHANGED StoreVars

-----------------------------------------------------------------------------
(* Browser page: the payments panel *)

\* recordPaymentBtn click, up to the await of createPayment
recordPayment(txId, amount) ==
    /\ task = Idle
    /\ txId # 0
    /\ amount > 0
    /\ task' = [op |-> "recordPayment", pc |-> "createPayment", txId |-> txId,
                amount |-> amount, totalAmount |-> 0, status |-> "none"]
    /\ last' = NoResult
    /\ UNCHANGED <<StoreVars, client>>

\* The handler resumes after createPayment, or in its catch
RecordCreatePayment ==
    /\ Waiting("recordPayment", "createPayment")
    /\ ~Unanswered
    /\ task' = IF Resolved THEN [task EXCEPT !.pc = "getTransaction"] ELSE Idle
    /\ last' = NoResult
    /\ UNCHANGED <<StoreVars, client>>

\* totalPaid >= totalAmount ? 'paid' : 'partial'
PanelStatus(totalAmount, totalPaid) ==
    IF totalPaid >= totalAmount THEN "paid" ELSE "partial"

\* refreshPaymentsView resumes with the transaction; when the request
\* failed, its catch returns { totalAmount: 0, totalPaid: 0 } and the
\* handler goes on to the status update.
RecordGetTransaction ==
    /\ Waiting("recordPayment", "getTransaction")
    /\ task' = IF Unanswered /\ TransactionExists(task.txId)
               THEN [task EXCEPT !.pc = "getPayments",
                        !.totalAmount = transactions[task.txId].total_amount]
               ELSE [task EXCEPT !.pc = "updateTransactionStatus",
                        !.status = PanelStatus(0, 0)]
    /\ last' = NoResult
    /\ UNCHANGED <<StoreVars, client>>

\* API.getPayments({ transaction_id: txId }): the payments recorded against
\* the transaction
ApiGetPayments(txId) ==
    SelectSeq(payments, LAMBDA p : p.transaction_id = txId)

\* payments.reduce((sum, p) => sum + Number(p.amount || 0), 0)
RECURSIVE SumPaid(_)
SumPaid(rows) ==
    IF rows = <<>> THEN 0 ELSE Head(rows).amount + SumPaid(Tail(rows))

\* refreshPaymentsView resumes with the payments of the transaction, or in
\* its catch
RecordGetPayments ==
    /\ Waiting("recordPayment", "getPayments")
    /\ task' = [task EXCEPT !.pc = "updateTransactionStatus",
                   !.status = IF Unanswered
                              THEN PanelStatus(task.totalAmount,
                                               SumPaid(ApiGetPayments(task.txId)))
                              ELSE PanelStatus(0, 0)]
    /\ last' = NoResult
    /\ UNCHANGED <<StoreVars, client>>

\* The handler resumes after the status update, or in its catch
RecordUpdateTransactionStatus ==
    /\ Waiting("recordPayment", "updateTransactionStatus")
    /\ ~Unanswered
    /\ task' = Idle
    /\ last' = NoResult
    /\ UNCHANGED <<StoreVars, client>>

-----------------------------------------------------------------------------
(* The API client: the request of the waiting handler reaches the server *)

Requested(pc) == task # Idle /\ task.pc = pc /\ Unanswered

\* API.createBuyer({name, id_number, phone, email, address, occupation, budget})
ApiCreateBuyer(s) ==
    /\ Requested("createBuyer")
    /\ Serial(s)
    /\ CreateBuyerCheck(s, [name |-> "ann", id_number |-> task.form.id_number,
                            phone |-> "0700", email |-> "ann-at-x",
                            budget |-> ClientBudget, absent |-> {}])

\* API.updatePlotsBulk(plots, 'sold', currentBuyerId)
ApiUpdatePlotsBulk ==
    /\ Requested("updatePlotsBulk")
    /\ AllIdle
    /\ UpdatePlotsBulk(PlotSet(task.plots), "sold", client.currentBuyerId)

\* API.createTransaction({buyer_id: currentBuyerId,
\* plot_ids: plots.join(','), total_amount: totalCost, notes})
ApiCreateTransaction(s) ==
    /\ Requested("createTransaction")
    /\ Serial(s)
    /\ CreateTransactionInsert(s, [buyer_id |-> client.currentBuyerId,
                                   plot_ids |-> Join(task.plots),
                                   total_amount |-> task.totalCost,
                                   text |-> TRUE, absent |-> {}])

\* The body of the handler's createPayment call
PaymentBody ==
    IF task.op = "buySelected"
    THEN [transaction_id |-> task.createdTx, amount |-> PaymentAmount(task)]
    ELSE [transaction_id |-> task.txId, amount |-> task.amount]

\* API.createPayment({transaction_id, amount, method, reference, paid_at}):
\* the payment is recorded against the transaction it references, for a
\* positive amount, and the ledger update of the transaction's buyer
\* follows the insert.
ApiCreatePayment(s) ==
    /\ Requested("createPayment")
    /\ Serial(s)
    /\ LET d == PaymentBody
       IN  IF ~TransactionExists(d.transaction_id) \/ d.amount <= 0
           THEN /\ last' = PaymentThrown("MissingField")
                /\ UNCHANGED <<payments, calls>>
           ELSE /\ payments' = Append(payments,
                       [buyer_id |-> transactions[d.transaction_id].buyer_id,
                        transaction_id |-> d.transaction_id,
                        amount |-> d.amount])
                /\ calls' = [calls EXCEPT ![s] =
                       [op |-> "createPayment", pc |-> "read",
                        buyer_id |-> transactions[d.transaction_id].buyer_id,
                        amount |-> d.amount, id |-> Len(payments) + 1]]
                /\ last' = last
    /\ UNCHANGED <<useSupabase, client, task, initDatabase, schema, server,
                   now, plots, buyers, transactions, raced>>

\* API.updateTransactionStatus(id, status)
ApiUpdateTransactionStatus ==
    /\ Requested("updateTransactionStatus")
    /\ AllIdle
    /\ IF task.op = "buySelected"
       THEN UpdateTransactionStatus(task.createdTx, InitialStatus(task))
       ELSE UpdateTransactionStatus(task.txId, task.status)

-----------------------------------------------------------------------------
(* Initial states *)

BaseTables == {"plots", "buyers", "transactions"}

\* Before the first initDatabase: no process, no table.
InitStore ==
    /\ useSupabase \in BOOLEAN
    /\ initDatabase = "none"
    /\ schema = {}
    /\ server = "down"
    /\ now = 1
    /\ plots = SeedTable({})
    /\ buyers = <<>>
    /\ transactions = <<>>
    /\ payments = <<>>
    /\ calls = [s \in Slots |-> Idle]
    /\ last = NoResult
    /\ raced = {}
    /\ client = InitClient
    /\ task = Idle

\* After initDatabase has set up and seeded an empty store and the server
\* listens.
InitSeeded ==
    /\ useSupabase \in BOOLEAN
    /\ initDatabase = SelectInitDatabase(TRUE)
    /\ schema = BaseTables
    /\ server = "up"
    /\ now = 1
    /\ plots = SeedTable(1..TOTAL)
    /\ buyers = <<>>
    /\ transactions = <<>>
    /\ payments = <<>>
    /\ calls = [s \in Slots |-> Idle]
    /\ last = NoResult
    /\ raced = {}
    /\ client = InitClient
    /\ task = Idle

\* As InitSeeded, on a store that may carry a payments table.  No code of
\* the repository creates one (createTables makes plots, buyers and
\* transactions); CREATE TABLE IF NOT EXISTS leaves in place what the
\* database file already holds.
InitLedger ==
    /\ useSupabase \in BOOLEAN
    /\ initDatabase = SelectInitDatabase(TRUE)
    /\ schema \in {BaseTables, BaseTables \cup {"payments"}}
    /\ server = "up"
    /\ now = 1
    /\ plots = SeedTable(1..TOTAL)
    /\ buyers = <<>>
    /\ transactions = <<>>
    /\ payments = <<>>
    /\ calls = [s \in Slots |-> Idle]
    /\ last = NoResult
    /\ raced = {}
    /\ client = InitClient
    /\ task = Idle


Pending(op) == Cardinality(InFlight(op))

\* The page after init() against a seeded store that carries a payments
\* table: loadPlots has filled soldSet with the sold plots.
InitPage ==
    /\ useSupabase \in BOOLEAN
    /\ initDatabase = SelectInitDatabase(TRUE)
    /\ schema = BaseTables \cup {"payments"}
    /\ server = "up"
    /\ now = 1
    /\ plots = SeedTable(1..TOTAL)
    /\ buyers = <<>>
    /\ transactions = <<>>
    /\ payments = <<>>
    /\ calls = [s \in Slots |-> Idle]
    /\ last = NoResult
    /\ raced = {}
    /\ client = [InitClient EXCEPT !.soldSet = preSoldPlots]
    /\ task = Idle

\* The buyer ids the ledger calls name: the stored buyers and an id that no
\* buyer of the ledger specifications ever has.
LedgerRefs == BuyerIds \cup {LedgerBuyers + 1}

-----------------------------------------------------------------------------
\* Start-up and seeding.
NextSeed == (\E loads \in BOOLEAN : LoadServer(loads)) \/ InitDatabase \/ ProcessExit
SpecSeed == InitStore /\ [][NextSeed]_vars

-----------------------------------------------------------------------------
\* Restarts of the process on the store it left, with plot updates between
\* them.  The first start may fail while seeding (at the first, second,
\* fifty-first or last INSERT) and leave a part of the table.
RestartFailPoints == {-1, 0, 1, 2, BATCH + 1, TOTAL}

NextRestart ==
    \/ \E loads \in BOOLEAN : LoadServer(loads)
    \/ \E fail \in RestartFailPoints : SqliteInitDatabase(fail)
    \/ \E connErr \in BOOLEAN, checkErr \in BOOLEAN, failed \in SUBSET Batches :
          SupabaseInitDatabase(connErr, checkErr, failed)
    \/ ProcessExit
    \/ \E id \in {3, TOTAL, TOTAL + 1}, status \in PlotStatuses,
          b \in PlotBuyerInputs :
          UpdatePlot(id, status, b)
    \/ \E ids \in {{3, TOTAL}, {1, TOTAL + 1}}, status \in PlotStatuses,
          b \in PlotBuyerInputs :
          UpdatePlotsBulk(ids, status, b)
SpecRestart == InitStore /\ [][NextRestart]_vars

-----------------------------------------------------------------------------
\* Sales: buyers are created and one seeded plot (and a plot id that is not
\* stored) is updated, for the stored buyers and for an id no buyer has.
SaleBuyerInputs == {d \in BuyerInputs({{}}) : d.budget = 100000}
SalePlotIds == {3, TOTAL + 1}
SaleBuyerIds == 0..(PlotBuyers + 1)

NextSale ==
    \/ \E s \in Slots, d \in SaleBuyerInputs :
          /\ Serial(s) /\ Len(buyers) < PlotBuyers
          /\ CreateBuyerCheck(s, d)
    \/ \E s \in Slots : CreateBuyerInsert(s)
    \/ \E id \in SalePlotIds, status \in StatusInputs, b \in SaleBuyerIds :
          AllIdle /\ UpdatePlot(id, status, b)
SpecSale == InitSeeded /\ [][NextSale]_vars

-----------------------------------------------------------------------------
\* Plot updates on the seeded table.
NextPlots == Tick \/ PlotOps
SpecPlots == InitSeeded /\ [][NextPlots]_vars

-----------------------------------------------------------------------------
\* createBuyer and updateBuyer, interleaved at their awaits.
NextBuyers ==
    \/ \E s \in Slots, d \in AnyBuyerInputs :
          /\ Len(buyers) + Pending("createBuyer") < MaxBuyers
          /\ CreateBuyerCheck(s, d)
    \/ \E s \in Slots : CreateBuyerInsert(s)
    \/ \E id \in 1..MaxBuyers, d \in AnyBuyerInputs : UpdateBuyer(id, d)
SpecBuyers == InitSeeded /\ [][NextBuyers]_vars

-----------------------------------------------------------------------------
\* createBuyer and createTransaction, one call at a time.
NextSerial ==
    \/ \E s \in Slots, d \in AnyBuyerInputs :
          /\ Serial(s) /\ Len(buyers) < LedgerBuyers
          /\ CreateBuyerCheck(s, d)
    \/ \E s \in Slots : CreateBuyerInsert(s)
    \/ \E s \in Slots, d \in AnyTxInputs(LedgerRefs) :
          /\ Serial(s) /\ Len(transactions) < MaxTx
          /\ CreateTransactionInsert(s, d)
    \/ \E s \in Slots : CreateTransactionRead(s)
    \/ \E s \in Slots : CreateTransactionWrite(s)
SpecSerial == InitSeeded /\ [][NextSerial]_vars

-----------------------------------------------------------------------------
\* Purchases and the updates of their payment status, one call at a time.
StatusTxIds == 1..(MaxTx + 1)

NextStatus ==
    \/ \E s \in Slots, d \in SaleBuyerInputs :
          /\ Serial(s) /\ Len(buyers) < LedgerBuyers
          /\ CreateBuyerCheck(s, d)
    \/ \E s \in Slots : CreateBuyerInsert(s)
    \/ \E s \in Slots, d \in TxInputs(LedgerRefs, {PRICE}, {{}}) :
          /\ Serial(s) /\ Len(transactions) < MaxTx
          /\ CreateTransactionInsert(s, d)
    \/ \E s \in Slots : CreateTransactionRead(s)
    \/ \E s \in Slots : CreateTransactionWrite(s)
    \/ \E id \in StatusTxIds, status \in PaymentStatusInputs :
          AllIdle /\ UpdateTransactionStatus(id, status)
SpecStatus == InitSeeded /\ [][NextStatus]_vars

-----------------------------------------------------------------------------
\* Payments of any amount, one call at a time.
AnyPayAmounts == {30000, 0, -30000}

NextPay ==
    \/ \E s \in Slots, d \in SaleBuyerInputs :
          /\ Serial(s) /\ Len(buyers) < LedgerBuyers
          /\ CreateBuyerCheck(s, d)
    \/ \E s \in Slots : CreateBuyerInsert(s)
    \/ \E s \in Slots,
          d \in PayInputs(LedgerRefs \cup {0}, AnyPayAmounts) \cup ClientPayInputs :
          /\ Serial(s) /\ Len(payments) < MaxLedgerRows
          /\ CreatePaymentInsert(s, d)
    \/ \E s \in Slots : CreatePaymentRead(s)
    \/ \E s \in Slots : CreatePaymentWrite(s)
SpecPay == InitLedger /\ [][NextPay]_vars

-----------------------------------------------------------------------------
\* Purchases whose ledger statements the store may fail, one call at a time.
NextFault ==
    \/ \E s \in Slots, d \in SaleBuyerInputs :
          /\ Serial(s) /\ Len(buyers) < LedgerBuyers
          /\ CreateBuyerCheck(s, d)
    \/ \E s \in Slots : CreateBuyerInsert(s)
    \/ \E s \in Slots, d \in TxInputs(LedgerRefs, TxAmounts, {{}}) :
          /\ Serial(s) /\ Len(transactions) < MaxTx
          /\ CreateTransactionInsert(s, d)
    \/ \E s \in Slots : CreateTransactionRead(s)
    \/ \E s \in Slots : CreateTransactionWrite(s)
    \/ \E s \in Slots : CreateTransactionReadFails(s)
    \/ \E s \in Slots : CreateTransactionWriteFails(s)
SpecFault == InitSeeded /\ [][NextFault]_vars

-----------------------------------------------------------------------------
\* Sales of the same plots to several stored buyers, one call at a time.
ResalePlotIds == {4, 5}

NextResale ==
    \/ \E s \in Slots, d \in SaleBuyerInputs :
          /\ Serial(s) /\ Len(buyers) < MaxBuyers
          /\ CreateBuyerCheck(s, d)
    \/ \E s \in Slots : CreateBuyerInsert(s)
    \/ \E id \in ResalePlotIds, status \in {"available", "sold"},
          b \in BuyerIds :
          AllIdle /\ UpdatePlot(id, status, b)
    \/ \E ids \in SUBSET ResalePlotIds, b \in BuyerIds :
          AllIdle /\ UpdatePlotsBulk(ids, "sold", b)
SpecResale == InitSeeded /\ [][NextResale]_vars

-----------------------------------------------------------------------------
\* The page against the server: clicks, reset, purchases and recorded
\* payments, one handler suspended at a time, with requests that may fail.
\* A purchase starts from an unspent budget.
NextPage ==
    \/ \E idx \in ClientPlotIds, shiftKey \in BOOLEAN : handlePlotClick(idx, shiftKey)
    \/ clearSelection
    \/ resetDemo
    \/ ResetGetPlots
    \/ ResetGetPlotStats
    \/ \E form \in ClientForms :
          /\ Len(transactions) < MaxPurchases /\ client.totalSpent = 0
          /\ buySelected(form)
    \/ BuyGetBuyers
    \/ BuyCreateBuyer
    \/ BuyUpdatePlotsBulk
    \/ BuyCreateTransaction
    \/ BuyCreatePayment
    \/ BuyUpdateTransactionStatus
    \/ BuyGetPlots
    \/ BuyGetPlotStats
    \/ \E txId \in 1..(MaxPurchases + 1), amount \in PayAmounts :
          /\ Len(payments) < MaxLedgerRows
          /\ recordPayment(txId, amount)
    \/ RecordCreatePayment
    \/ RecordGetTransaction
    \/ RecordGetPayments
    \/ RecordUpdateTransactionStatus
    \/ \E s \in Slots : ApiCreateBuyer(s)
    \/ \E s \in Slots : CreateBuyerInsert(s)
    \/ ApiUpdatePlotsBulk
    \/ \E s \in Slots : ApiCreateTransaction(s)
    \/ \E s \in Slots : CreateTransactionRead(s)
    \/ \E s \in Slots : CreateTransactionWrite(s)
    \/ \E s \in Slots : ApiCreatePayment(s)
    \/ \E s \in Slots : CreatePaymentRead(s)
    \/ \E s \in Slots : CreatePaymentWrite(s)
    \/ ApiUpdateTransactionStatus
    \/ RequestFails
SpecPage == InitPage /\ [][NextPage]_vars

-----------------------------------------------------------------------------
\* createTransaction calls interleaved at their awaits, each started in the
\* lowest free slot; buyers are created while no call is in flight.
LowestFree(s) == \A t \in Slots : t < s => calls[t] # Idle

NextRace ==
    \/ \E s \in Slots, d \in BuyerInputs({{}}) :
          /\ Serial(s) /\ Len(buyers) < LedgerBuyers
          /\ CreateBuyerCheck(s, d)
    \/ \E s \in Slots : CreateBuyerInsert(s)
    \/ \E s \in Slots, d \in TxInputs(LedgerRefs, TxAmounts, {{}}) :
          /\ LowestFree(s) /\ Len(transactions) < MaxTx
          /\ CreateTransactionInsert(s, d)
    \/ \E s \in Slots : CreateTransactionRead(s)
    \/ \E s \in Slots : CreateTransactionWrite(s)
SpecRace == InitSeeded /\ [][NextRace]_vars

-----------------------------------------------------------------------------
\* Every buyer and ledger write of the adapter, one call at a time, with
\* complete request bodies.
Next ==
    \/ \E s \in Slots, d \in BuyerInputs({{}}) :
          /\ Serial(s) /\ Len(buyers) < LedgerBuyers
          /\ CreateBuyerCheck(s, d)
    \/ \E s \in Slots : CreateBuyerInsert(s)
    \/ \E id \in 1..LedgerBuyers, d \in BuyerInputs({{}}) :
          AllIdle /\ UpdateBuyer(id, d)
    \/ \E s \in Slots, d \in TxInputs(LedgerRefs, {PRICE}, {{}}) :
          /\ Serial(s) /\ Len(transactions) + Len(payments) < MaxLedgerRows
          /\ CreateTransactionInsert(s, d)
    \/ \E s \in Slots : CreateTransactionRead(s)
    \/ \E s \in Slots : CreateTransactionWrite(s)
    \/ \E s \in Slots, d \in PayInputs(LedgerRefs, PayAmounts) :
          /\ Serial(s) /\ Len(transactions) + Len(payments) < MaxLedgerRows
          /\ CreatePaymentInsert(s, d)
    \/ \E s \in Slots : CreatePaymentRead(s)
    \/ \E s \in Slots : CreatePaymentWrite(s)
Spec == InitLedger /\ [][Next]_vars

-----------------------------------------------------------------------------
(* Properties *)

\* The transactions rows stored for buyer b and the sum of their amounts
TxRows(b) == {i \in 1..Len(transactions) : transactions[i].buyer_id = b}
PayRows(b) == {i \in 1..Len(payments) : payments[i].buyer_id = b}

RECURSIVE SumAmounts(_)
SumAmounts(rows) ==
    IF rows = {} THEN 0
    ELSE LET i == CHOOSE r \in rows : TRUE
         IN  transactions[i].total_amount + SumAmounts(rows \ {i})

SumTx(b) == SumAmounts(TxRows(b))

\* max(0, n), written out
AtLeastZero(n) == IF n < 0 THEN 0 ELSE n

C3_RemainingIsBudgetMinusSpent ==
    AllIdle =>
        \A b \in BuyerIds :
            buyers[b].remaining_balance = buyers[b].budget - buyers[b].total_spent

C5_PurchaseThenPayment ==
    [][\A s \in Slots, d \in PayInputs(BuyerIds, PayAmounts) :
         LET b == d.buyer_id
             applied == /\ schema = BaseTables
                        /\ Cardinality(TxRows(b)) = 1
                        /\ buyers[b].total_spent = SumTx(b)
                        /\ d.amount <= SumTx(b)
         IN  /\ (applied /\ PayRows(b) = {} /\ CreatePaymentInsert(s, d)) =>
                    /\ last' = last
                    /\ PayRows(b)' # {}
             /\ (CreatePaymentWrite(s) /\ calls[s].buyer_id = b
                   /\ calls[s].amount = d.amount /\ applied) =>
                    /\ Len(payments') = 1 /\ Len(transactions') = 1
                    /\ buyers'[b].total_spent = SumTx(b) - d.amount
                    /\ buyers'[b].remaining_balance =
                           buyers'[b].budget - (SumTx(b) - d.amount)]_vars

\* C6: no two stored buyers have the same id_number.
C6_IdNumberUnique ==
    \A i \in BuyerIds, j \in BuyerIds :
        i # j => buyers[i].id_number # buyers[j].id_number

\* C7: a createBuyer call with a complete body whose id_number is that of a
\* stored buyer fails with Conflict (status 409, answered as 409), inserts
\* no row and leaves the stored rows as they are.
C7_DuplicateIsConflict ==
    [][\A s \in Slots, d \in BuyerInputs({{}}) :
         (IdNumberTaken(d.id_number) /\ CreateBuyerCheck(s, d)) =>
            /\ last'.kind = "Conflict"
            /\ last'.status = 409
            /\ last'.http = 409
            /\ buyers' = buyers]_vars

\* C8: each plot has a buyer_id if and only if its status is sold.
C8_BuyerIffSold ==
    \A i \in DOMAIN plots :
        (plots[i].buyer_id # NoBuyer) <=> (plots[i].status = "sold")

\* C9 as stated: no write changes the budget of a stored buyer row.
C9_BudgetNeverChanges ==
    [][\A b \in BuyerIds : buyers'[b].budget = buyers[b].budget]_vars

\* C9: createTransaction and createPayment never change the budget of a
\* stored buyer row; the only write that does is a successful updateBuyer
\* of that row, which sets it to the budget of its request body.
C9_BudgetChangedOnlyByUpdateBuyer ==
    [][\A b \in BuyerIds :
         buyers'[b].budget # buyers[b].budget =>
            \E d \in BuyerInputs({{}}) :
                /\ UpdateBuyer(b, d)
                /\ last'.kind = "ok"
                /\ buyers'[b].budget = d.budget]_vars

\* C9 witness: a buyer whose totals were written for the budget 100000 and
\* whose budget an updateBuyer call has since set to 0.
C9_BudgetOverwritten ==
    \E b \in BuyerIds :
        /\ last.op = "updateBuyer" /\ last.kind = "ok"
        /\ buyers[b].total_spent = PRICE
        /\ buyers[b].remaining_balance = 100000 - PRICE
        /\ buyers[b].budget = 0

\* C10: when initDatabase seeds an empty store and reports success (the
\* server starts listening), the plot table holds exactly the ids 1..200,
\* the thirteen pre-sold ids are sold and every other plot is available.
C10_SeededExactly ==
    [][(DOMAIN plots = {} /\ InitDatabase /\ server' = "up") =>
          /\ DOMAIN plots' = 1..TOTAL
          /\ \A i \in DOMAIN plots' :
                plots'[i].status =
                    IF i \in preSoldPlots THEN "sold" ELSE "available"]_vars

\* C11: initDatabase on a store that holds plots leaves the plot table as
\* it is (no plot inserted, deleted or changed), and no restart or plot
\* update changes the set of stored plot ids once there is one; a table
\* holding the ids 1..200 keeps exactly them.
C11_SeedOnlyOnce ==
    [][/\ (DOMAIN plots # {} /\ InitDatabase) => plots' = plots
       /\ DOMAIN plots # {} => DOMAIN plots' = DOMAIN plots
       /\ DOMAIN plots = 1..TOTAL => DOMAIN plots' = 1..TOTAL]_vars

\* C11 witness: the process has been started again on a store that held the
\* plots 1..50 only, has seeded nothing, and a plot has been updated since.
C11_RestartedOnStoredPlots ==
    /\ ~useSupabase
    /\ server = "up"
    /\ DOMAIN plots = 1..BATCH
    /\ plots[3].status = "selected"

\* C12 as stated: for every stored plot id and every buyerId,
\* updatePlot(id, "sold", buyerId) succeeds and getPlotById(id) then
\* returns status sold, buyer_id = buyerId and a sold_date.
C12_SoldForEveryBuyerId ==
    [][\A id \in SalePlotIds \cap DOMAIN plots, b \in SaleBuyerIds \ {NoBuyer} :
         UpdatePlot(id, "sold", b) =>
            /\ last'.kind = "ok"
            /\ getPlotById(id)'.status = "sold"
            /\ getPlotById(id)'.buyer_id = b
            /\ getPlotById(id)'.sold_date # NoDate]_vars

\* C12: for every stored plot id and every buyerId that is the id of a
\* stored buyer (on SQLite, which does not enforce the foreign key, every
\* non-null buyerId), updatePlot(id, "sold", buyerId) succeeds and
\* getPlotById(id) then returns status sold, buyer_id = buyerId and a
\* sold_date, whatever the row held before.
C12_SoldForStoredBuyer ==
    [][\A id \in SalePlotIds \cap DOMAIN plots, b \in SaleBuyerIds \ {NoBuyer} :
         ((BuyerExists(b) \/ ~useSupabase) /\ UpdatePlot(id, "sold", b)) =>
            /\ last'.kind = "ok"
            /\ getPlotById(id)'.status = "sold"
            /\ getPlotById(id)'.buyer_id = b
            /\ getPlotById(id)'.sold_date # NoDate]_vars

\* C12 witness: on the backend that checks the foreign key, the plot seeded
\* as sold without a buyer has been sold to a stored buyer.
C12_SoldToStoredBuyer ==
    /\ useSupabase
    /\ last.op = "updatePlot" /\ last.kind = "ok"
    /\ \E b \in BuyerIds :
          /\ getPlotById(3).status = "sold"
          /\ getPlotById(3).buyer_id = b
          /\ getPlotById(3).sold_date # NoDate

\* C13: updatePlotsBulk(ids, "available") on a list mixing stored and
\* not stored plot ids raises no error, returns as updatedCount the number
\* of stored ids of the list (which the route reports), sets exactly those
\* plots to available and creates or changes no other row.
C13_BulkCountsStoredIds ==
    [][\A ids \in SUBSET PlotIdInputs, b \in PlotBuyerInputs :
         (/\ ids \cap DOMAIN plots # {}
          /\ ids \ DOMAIN plots # {}
          /\ UpdatePlotsBulk(ids, "available", b)) =>
            /\ last'.kind = "ok"
            /\ last'.value = Cardinality(ids \cap DOMAIN plots)
            /\ plots' = [i \in DOMAIN plots |->
                            IF i \in ids
                            THEN [plots[i] EXCEPT !.status = "available"]
                            ELSE plots[i]]]_vars

\* The error kinds that say a value failed an enumerated check: the
\* adapter's own validation and the store's CHECK constraint.
InvalidArgument(kind) == kind \in {"InvalidStatus", "InvalidIds", "CheckViolation"}

C15_SplitGivesBackIds ==
    [][\A s \in Slots, d \in AnyTxInputs(LedgerRefs) :
         (/\ CreateTransactionInsert(s, d)
          /\ Len(transactions') = Len(transactions) + 1) =>
            LET stored == transactions'[Len(transactions')].plot_ids
            IN  /\ stored = Join(d.plot_ids)
                /\ Split(stored) = [i \in DOMAIN d.plot_ids |->
                                       DecimalString(d.plot_ids[i])]]_vars

\* C16: every failed adapter write carries the status that the route
\* answers with: 400 for a missing required field or an invalid enum value,
\* 404 for an update of a row that is not stored, 409 for a duplicate
\* id_number.
C16_FailuresClassified ==
    last.kind # "ok" =>
        /\ last.kind \in {"MissingField", "NotNullViolation", "InvalidStatus",
                          "InvalidIds", "CheckViolation"} => last.http = 400
        /\ last.kind \in {"NotFound", "PlotNotFound", "NoRows"} => last.http = 404
        /\ last.kind \in {"Conflict", "UniqueViolation"} => last.http = 409

\* C17: updatePlot with a status outside {available, selected, sold}, an
\* absent status included, and updatePlotsBulk with an empty id list or
\* such a status, fail with an invalid-argument error and leave every plot
\* row unchanged.
C17_InvalidPlotArgumentRejected ==
    [][\A status \in StatusInputs, b \in PlotBuyerInputs :
         /\ \A id \in PlotIdInputs :
               (status \notin PlotStatuses /\ UpdatePlot(id, status, b)) =>
                  /\ last'.kind # "ok"
                  /\ InvalidArgument(last'.kind)
                  /\ plots' = plots
         /\ \A ids \in SUBSET PlotIdInputs :
               (/\ ids = {} \/ status \notin PlotStatuses
                /\ UpdatePlotsBulk(ids, status, b)) =>
                  /\ last'.kind # "ok"
                  /\ InvalidArgument(last'.kind)
                  /\ plots' = plots]_vars

\* The required fields of the two create calls, and the error kinds that
\* say one of them is missing: the adapter's own check and the store's
\* NOT NULL constraint.
TransactionRequired == {"buyer_id", "plot_ids", "total_amount"}
AllPresent(d, fields) == \A f \in fields : Has(d, f)
MissingField(kind) == kind \in {"MissingField", "NotNullViolation"}

\* The part of C18 about a call that leaves a required field out: it fails
\* as a missing field, starts no insert and changes no stored row.
AbsentFieldRejected ==
    /\ \A s \in Slots, d \in AnyBuyerInputs :
          (~AllPresent(d, BuyerFields) /\ CreateBuyerCheck(s, d)) =>
             /\ last'.op = "createBuyer" /\ MissingField(last'.kind)
             /\ buyers' = buyers /\ calls' = calls
    /\ \A s \in Slots, d \in AnyTxInputs(LedgerRefs) :
          (~AllPresent(d, TransactionRequired) /\ CreateTransactionInsert(s, d)) =>
             /\ last'.op = "createTransaction" /\ MissingField(last'.kind)
             /\ transactions' = transactions /\ buyers' = buyers
             /\ calls' = calls

\* A createBuyer call with every required field is not refused as a missing
\* field: it goes on to its insert or ends otherwise.
CompleteBuyerPasses ==
    \A s \in Slots, d \in AnyBuyerInputs :
       (AllPresent(d, BuyerFields) /\ CreateBuyerCheck(s, d)) =>
          \/ calls'[s].op = "createBuyer"
          \/ last'.op = "createBuyer" /\ ~MissingField(last'.kind)

C20_LedgerFailureReported ==
    [][\A s \in Slots :
         (\/ CreateTransactionReadFails(s)
          \/ CreateTransactionWriteFails(s)) =>
            /\ transactions' = transactions
            /\ calls[s].id \in 1..Len(transactions')
            /\ buyers' = buyers
            /\ last'.op = "createTransaction"
            /\ last'.kind # "ok"]_vars

\* C21: the backend choice never changes, and no request is handled before
\* initDatabase has completed: the server starts listening only by an
\* initDatabase that resolves, a request is handled only by a listening
\* server, and a failed initDatabase ends the process without listening.
C21_ServedOnlyAfterInit ==
    [][/\ useSupabase' = useSupabase
       /\ (initDatabase # "none" /\ initDatabase' # "none") =>
             initDatabase' = initDatabase
       /\ (server = "down" /\ server' = "up") => InitDatabase
       /\ (last' # last \/ (plots' # plots /\ ~InitDatabase)) =>
             server = "up" /\ server' = "up"
       /\ (\/ SqliteInitDatabase(-1)
           \/ \E checkErr \in BOOLEAN, failed \in SUBSET Batches :
                 SupabaseInitDatabase(TRUE, checkErr, failed)) =>
             server' = "down" /\ initDatabase' = "none" /\ plots' = plots]_vars

\* A request was answered by a process that listens on a seeded store.
C21_ServingAfterInit ==
    /\ server = "up"
    /\ initDatabase # "none"
    /\ DOMAIN plots = 1..TOTAL
    /\ last.op = "updatePlotsBulk" /\ last.kind = "ok"

\* C29: the backend the adapter dispatches to is the backend that was
\* initialized at startup: the initDatabase the server calls, and the one it
\* has called when a request is handled, is the Supabase one exactly when
\* the adapter's useSupabase is true; a server that fell back to SQLite
\* because the Supabase module does not load calls no initDatabase.
C29_DispatchMatchesInit ==
    [][/\ initDatabase' # "none" =>
             (useSupabase' <=> initDatabase' = "supabase")
       /\ (\E fail \in RestartFailPoints : SqliteInitDatabase(fail)) =>
             ~useSupabase
       /\ (\E connErr \in BOOLEAN, checkErr \in BOOLEAN, failed \in SUBSET Batches :
              SupabaseInitDatabase(connErr, checkErr, failed)) => useSupabase
       /\ last' # last => (useSupabase <=> initDatabase = "supabase")
       /\ LoadServer(FALSE) => initDatabase' = "none"]_vars

\* The adapter, with useSupabase true, answered a request in a process that
\* had called the Supabase initDatabase.
C29_SupabaseServing ==
    /\ useSupabase
    /\ initDatabase = "supabase"
    /\ server = "up"
    /\ last.op = "updatePlot" /\ last.kind = "ok"

\* The outcome classes of the operation contract.
OutcomeClass(kind) ==
    IF kind = "ok" THEN "success"
    ELSE IF MissingField(kind) THEN "MissingField"
    ELSE IF InvalidArgument(kind) THEN "InvalidArgument"
    ELSE IF kind \in {"Conflict", "UniqueViolation"} THEN "Conflict"
    ELSE IF kind \in {"NotFound", "PlotNotFound", "NoRows"} THEN "NotFound"
    ELSE "unclassified"

OutcomeClasses ==
    {"success", "MissingField", "InvalidArgument", "Conflict", "NotFound",
     "unclassified"}

\* Two branches agree on a call when they end with the same result and the
\* same plot table, or fail in the same class without changing a plot.
BranchesAgree(A, B) ==
    \/ ENABLED (A /\ B)
    \/ \E c \in OutcomeClasses \ {"success"} :
          /\ ENABLED (A /\ OutcomeClass(last'.kind) = c /\ plots' = plots)
          /\ ENABLED (B /\ OutcomeClass(last'.kind) = c /\ plots' = plots)

\* C22: in every state and for every input the SQLite branch and the
\* Supabase branch of an adapter operation produce the same outcome class,
\* the same result (the row count of updatePlotsBulk) and the same stored
\* effect; stated for updatePlot and updatePlotsBulk.
C22_BranchesAgree ==
    /\ \A id \in PlotIdInputs, status \in StatusInputs, b \in PlotBuyerInputs :
          BranchesAgree(SqliteUpdatePlot(id, status, b),
                        SupabaseUpdatePlot(id, status, b))
    /\ \A ids \in SUBSET PlotIdInputs, status \in StatusInputs,
          b \in PlotBuyerInputs :
          BranchesAgree(SqliteUpdatePlotsBulk(ids, status, b),
                        SupabaseUpdatePlotsBulk(ids, status, b))

\* C23: every stored transaction's buyer_id and every plot's non-null
\* buyer_id identifies a stored buyer row.
C23_BuyerReferencesResolve ==
    /\ \A i \in 1..Len(transactions) : BuyerExists(transactions[i].buyer_id)
    /\ \A id \in DOMAIN plots :
          plots[id].buyer_id # NoBuyer => BuyerExists(plots[id].buyer_id)

\* C24: a plot is never sold twice: once a plot is sold with buyer_id = B,
\* an updatePlot or updatePlotsBulk call with status sold and another
\* stored buyer leaves its buyer_id and sold_date as they are.
C24_NeverSoldTwice ==
    [][\A id \in ResalePlotIds, b \in BuyerIds :
         (/\ getPlotById(id).status = "sold"
          /\ getPlotById(id).buyer_id \notin {NoBuyer, b}
          /\ \/ UpdatePlot(id, "sold", b)
             \/ \E ids \in SUBSET ResalePlotIds :
                   id \in ids /\ UpdatePlotsBulk(ids, "sold", b)) =>
            /\ getPlotById(id)'.buyer_id = getPlotById(id).buyer_id
            /\ getPlotById(id)'.sold_date = getPlotById(id).sold_date]_vars

\* C27: a payment the client records against transaction T, with a
\* positive amount, is stored, so that the payments of T can be listed.
C27_ClientPaymentStored ==
    [][\A s \in Slots, d \in ClientPayInputs :
         (d.amount > 0 /\ CreatePaymentInsert(s, d)) =>
            /\ Len(payments') = Len(payments) + 1
            /\ payments'[Len(payments')].amount = d.amount]_vars

\* C25: once buySelected has created a transaction and recorded its
\* initial payment, the stored payment_status leaves pending: when the
\* purchase ends, it is paid if the payment covers the total amount and
\* partial if only a deposit was paid.
PaymentRecorded(txId) ==
    \E i \in DOMAIN payments : payments[i].transaction_id = txId

Covered(txId) ==
    /\ TransactionExists(txId)
    /\ SumPaid(ApiGetPayments(txId)) >= transactions[txId].total_amount

PurchaseComplete(f) ==
    LET b == FoundBuyer(f.form.id_number)
    IN  /\ b # NoBuyer
        /\ \A p \in PlotSet(f.plots) :
              plots[p].status = "sold" /\ plots[p].buyer_id = b
        /\ \E t \in DOMAIN transactions :
              /\ t > f.started.transactions
              /\ transactions[t].buyer_id = b
              /\ transactions[t].plot_ids = Join(f.plots)

PurchaseWroteNothing(f) ==
    /\ Len(buyers) = f.started.buyers
    /\ Len(transactions) = f.started.transactions
    /\ \A p \in PlotSet(f.plots) : plots[p] = f.started.plots[p]

C28_PurchaseAllOrNothing ==
    [][(task # Idle /\ task.op = "buySelected" /\ task' = Idle)
       => PurchaseComplete(task) \/ PurchaseWroteNothing(task)]_vars

\* C30: no plot of the selected set is in soldSet.
C30_SelectedNeverSold == client.selected \cap client.soldSet = {}

====
